---- MODULE Spec2Model ----
(***************************************************************************)
(* Model of packages/frontend-plugin-api/src/routing/types.ts:             *)
(*   - the process-wide family marker routeRefType, obtained through the   *)
(*     global-singleton accessor by every loaded copy of the module;       *)
(*   - the type-level functions RouteFunc, OptionalParams and ParamKeys,   *)
(*     modelled as operators on a small universe of parameter shapes;      *)
(*   - the ExternalRouteRef descriptor shape and its consumer;             *)
(*   - the BackstageRouteObject tree node shape and its producer.          *)
(***************************************************************************)
EXTENDS Naturals, Sequences, FiniteSets

\* ------------------------------------------------------------------ bounds

\* Number of independently loaded copies of the defining module.
MaxCopies == 3
\* Number of objects that copies tag with their marker.
MaxObjects == 2

Copies == 1..MaxCopies

\* ------------------------------------------------------- family marker state

VARIABLES
  globalSingletons,  \* the process-wide registry: key -> stored value or Absent
  symbolCount,       \* how many Symbol(...) values the process has created
  routeRefTypeOf,    \* copy -> the routeRefType constant it holds, or NotLoaded
  factoryRanIn,      \* set of copies whose factory () => Symbol(...) executed
  retrievals,        \* log of every retrieval under 'route-ref-type': <<copy, value>>
  tagged             \* objects tagged with a copy's marker: [by |-> copy, tag |-> value]

markerVars == <<globalSingletons, symbolCount, routeRefTypeOf, factoryRanIn,
                retrievals, tagged>>

Absent == [desc |-> "absent", id |-> 0]
NotLoaded == [desc |-> "not-loaded", id |-> 0]

RouteRefTypeKey == "route-ref-type"
OtherKey == "other-singleton"
SingletonKeys == {RouteRefTypeKey, OtherKey}

\* Symbol(desc): every call yields a new value, distinct from every earlier one.
Symbol(desc, count) == [desc |-> desc, id |-> count + 1]

\* getOrCreateGlobalSingleton(id, supplier): the stored value when the key is
\* present, otherwise the supplier's value, which is stored. `supplied` is the
\* value the supplier would return if it ran.
getOrCreateGlobalSingleton(store, id, supplied) ==
  IF store[id] # Absent
    THEN [store |-> store, value |-> store[id], created |-> FALSE]
    ELSE [store |-> [store EXCEPT ![id] = supplied],
          value |-> supplied, created |-> TRUE]

\* A copy that builds its own symbol instead of asking the shared registry.
routeRefTypeLocalSymbol(store, count) ==
  [store |-> store, value |-> Symbol(RouteRefTypeKey, count), created |-> TRUE]

\* export const routeRefType = getOrCreateGlobalSingleton('route-ref-type',
\*                                 () => Symbol('route-ref-type'))
routeRefType(store, count) ==
  getOrCreateGlobalSingleton(store, RouteRefTypeKey, Symbol(RouteRefTypeKey, count))

MarkerInit ==
  /\ globalSingletons = [k \in SingletonKeys |-> Absent]
  /\ symbolCount = 0
  /\ routeRefTypeOf = [c \in Copies |-> NotLoaded]
  /\ factoryRanIn = {}
  /\ retrievals = <<>>
  /\ tagged = {}

\* A copy of the module is loaded: its top-level constant is evaluated once.
LoadCopy(c) ==
  /\ routeRefTypeOf[c] = NotLoaded
  /\ LET r == routeRefType(globalSingletons, symbolCount) IN
       /\ globalSingletons' = r.store
       /\ symbolCount' = IF r.created THEN symbolCount + 1 ELSE symbolCount
       /\ routeRefTypeOf' = [routeRefTypeOf EXCEPT ![c] = r.value]
       /\ factoryRanIn' = IF r.created THEN factoryRanIn \cup {c} ELSE factoryRanIn
       /\ retrievals' = Append(retrievals, <<c, r.value>>)
  /\ UNCHANGED tagged

\* Some other package asks the registry for a singleton under its own key.
OtherCaller ==
  /\ globalSingletons[OtherKey] = Absent
  /\ LET r == getOrCreateGlobalSingleton(globalSingletons, OtherKey,
                                         Symbol(OtherKey, symbolCount)) IN
       /\ globalSingletons' = r.store
       /\ symbolCount' = symbolCount + 1
  /\ UNCHANGED <<routeRefTypeOf, factoryRanIn, retrievals, tagged>>

\* A loaded copy constructs an object and tags it with the marker it holds.
TagObject(c) ==
  /\ routeRefTypeOf[c] # NotLoaded
  /\ Cardinality(tagged) < MaxObjects
  /\ tagged' = tagged \cup {[by |-> c, tag |-> routeRefTypeOf[c]]}
  /\ UNCHANGED <<globalSingletons, symbolCount, routeRefTypeOf, factoryRanIn,
                 retrievals>>

\* The membership check of copy c: the object's tag is the marker c holds.
IsRouteRefFor(c, obj) == obj.tag = routeRefTypeOf[c]


\* --------------------------------------------------- parameter-shape types

\* Parameter names an author may declare.
ParamNames == {"orgId", "repoId", "id"}
\* Longest declared parameter shape.
MaxKeys == 2
\* Longest key list written against a derived key-list type.
MaxListLen == 3
\* Longest argument list written at a call site.
MaxArgs == 2
\* How often OptionalParams is applied in a row.
MaxNormalise == 2

SeqsUpTo(S, n) == UNION {[1..k -> S] : k \in 0..n}
Range(s) == {s[i] : i \in DOMAIN s}
IsInjective(s) == \A i, j \in DOMAIN s : s[i] = s[j] => i = j

\* The types a route's Params may be: undefined, an object type with the listed
\* keys in declaration order (each of type string), or the index-signature
\* mapping { [param in string]: string } whose key type is all of string.
UndefinedT == [kind |-> "undefined", keys |-> <<>>]
ObjectT(keys) == [kind |-> "object", keys |-> keys]
IndexT == [kind |-> "index", keys |-> <<>>]

ObjectShapes == {ObjectT(ks) : ks \in {s \in SeqsUpTo(ParamNames, MaxKeys) : IsInjective(s)}}
MappingShapes == ObjectShapes \cup {IndexT}

\* AnyRouteParams = { [param in string]: string } | undefined: every type
\* assignable to it.
AnyRouteParams == MappingShapes \cup {UndefinedT}

\* keyof T as a set of names: never is the empty set; keyof undefined is never.
KeyOf(T) ==
  CASE T.kind = "undefined" -> {}
    [] T.kind = "object" -> Range(T.keys)
    [] T.kind = "index" -> ParamNames

\* T[keyof T]: the union of the value types over the keys; never when no key.
IndexedAccess(T) == {"string" : k \in KeyOf(T)}

IsNever(U) == U = {}

\* `T extends undefined`.
ExtendsUndefined(T) == T.kind = "undefined"

\* A RouteFunc that tests for the absence of keys instead of for undefined.
RouteFuncByKeys(Params) ==
  IF IsNever(KeyOf(Params)) THEN <<>> ELSE <<Params>>

\* RouteFunc<Params>: the type of the function's argument list, a tuple type:
\*   Params extends undefined ? readonly [] : readonly [Params]
RouteFunc(Params) ==
  IF ExtendsUndefined(Params) THEN <<>> ELSE <<Params>>

\* An OptionalParams that never normalises.
OptionalParamsIdentity(Params) == Params

\* OptionalParams<Params>: Params[keyof Params] extends never ? undefined : Params
OptionalParams(Params) ==
  IF IsNever(IndexedAccess(Params)) THEN UndefinedT ELSE Params

\* The type of a list of keys: the empty tuple type [] or the array type U[].
EmptyTupleT == [kind |-> "tuple", elem |-> {}]
ArrayT(U) == [kind |-> "array", elem |-> U]

\* A ParamKeys with its branches exchanged.
ParamKeysSwapped(TParams) ==
  IF IsNever(KeyOf(TParams)) THEN ArrayT(ParamNames) ELSE EmptyTupleT

\* ParamKeys<TParams>: keyof TParams extends never ? [] : (keyof TParams)[]
ParamKeys(TParams) ==
  IF IsNever(KeyOf(TParams)) THEN EmptyTupleT ELSE ArrayT(KeyOf(TParams))

\* Runtime values passed as arguments: undefined, or an object whose
\* properties (all strings) are the named ones.
UndefinedV == [kind |-> "undefined", props |-> {}]
ObjectV(props) == [kind |-> "object", props |-> props]
ArgValues == {UndefinedV} \cup {ObjectV(ps) : ps \in SUBSET ParamNames}

\* Assignability of a value to a parameter-shape type (structural).
AssignableTo(v, T) ==
  CASE T.kind = "undefined" -> v.kind = "undefined"
    [] T.kind = "object" -> v.kind = "object" /\ Range(T.keys) \subseteq v.props
    [] T.kind = "index" -> v.kind = "object"

\* An argument list type-checks against a tuple type of parameters.
ArgsTypeCheck(args, tuple) ==
  /\ Len(args) = Len(tuple)
  /\ \A i \in DOMAIN args : AssignableTo(args[i], tuple[i])

\* A list of names type-checks against a key-list type.
KeyListTypeChecks(list, KT) ==
  IF KT.kind = "tuple" THEN list = <<>> ELSE Range(list) \subseteq KT.elem

VARIABLES
  shapes,     \* <<declared Params, OptionalParams of it, ...>>
  routeFunc,  \* NoDerived, or the RouteFunc derived from shapes[step]
  call,       \* NoCall, or an argument list the checker accepted for routeFunc
  paramKeys,  \* NoDerived, or the ParamKeys derived from shapes[step]
  keyList     \* NoCall, or a key list the checker accepted for paramKeys

typeVars == <<shapes, routeFunc, call, paramKeys, keyList>>

NoDerived == [step |-> 0]
NoCall == [step |-> 0]
Current == shapes[Len(shapes)]

TypesInit ==
  /\ shapes \in {<<P>> : P \in AnyRouteParams}
  /\ routeFunc = NoDerived
  /\ call = NoCall
  /\ paramKeys = NoDerived
  /\ keyList = NoCall

TypesIdle ==
  /\ shapes = <<UndefinedT>>
  /\ routeFunc = NoDerived
  /\ call = NoCall
  /\ paramKeys = NoDerived
  /\ keyList = NoCall

\* type N = OptionalParams<Current>; the constraint admits mappings only.
Normalise ==
  /\ Len(shapes) <= MaxNormalise
  /\ Current \in MappingShapes
  /\ shapes' = Append(shapes, OptionalParams(Current))
  /\ UNCHANGED <<routeFunc, call, paramKeys, keyList>>

\* type F = RouteFunc<Current>
DeriveRouteFunc ==
  /\ routeFunc = NoDerived
  /\ routeFunc' = [step |-> Len(shapes), of |-> Current, args |-> RouteFunc(Current)]
  /\ UNCHANGED <<shapes, call, paramKeys, keyList>>

\* A call site f(...args) that the type checker accepts.
CallRouteFunc(args) ==
  /\ routeFunc # NoDerived
  /\ call = NoCall
  /\ ArgsTypeCheck(args, routeFunc.args)
  /\ call' = [step |-> routeFunc.step, args |-> args]
  /\ UNCHANGED <<shapes, routeFunc, paramKeys, keyList>>

\* type K = ParamKeys<Current>
DeriveParamKeys ==
  /\ paramKeys = NoDerived
  /\ paramKeys' = [step |-> Len(shapes), of |-> Current, type |-> ParamKeys(Current)]
  /\ UNCHANGED <<shapes, routeFunc, call, keyList>>

\* const params: K = list, accepted by the type checker.
AssignKeyList(list) ==
  /\ paramKeys # NoDerived
  /\ keyList = NoCall
  /\ KeyListTypeChecks(list, paramKeys.type)
  /\ keyList' = [step |-> paramKeys.step, list |-> list]
  /\ UNCHANGED <<shapes, routeFunc, call, paramKeys>>


\* ------------------------------------------------ external route references

\* The plugins' exported external route references.
RefIds == {"catalogIndex", "createComponent"}

\* Parameter shapes the references of this model are declared with.
RefShapes == {UndefinedT, ObjectT(<<>>), ObjectT(<<"id">>)}

\* The Optional type argument: the literal types true and false, or boolean.
OptionalTypes == {"true", "false", "boolean"}

\* Values of the property `optional?: Optional`: the property may be absent.
OptionalValues(Optional) ==
  {"absent"} \cup (CASE Optional = "true" -> {"true"}
                     [] Optional = "false" -> {"false"}
                     [] Optional = "boolean" -> {"true", "false"})

\* An ExternalRouteRef whose discriminator is left open to any route-ref kind.
ExternalRouteRefAnyKind(Params, Optional) ==
  {[routeRefType |-> t, params |-> ps, optional |-> o] :
     t \in {"external", "absolute"},
     ps \in {l \in SeqsUpTo(ParamNames, MaxListLen) :
               KeyListTypeChecks(l, ParamKeys(Params))},
     o \in OptionalValues(Optional)}

\* An ExternalRouteRef whose params is typed string[] whatever Params is.
ExternalRouteRefAnyParams(Params, Optional) ==
  {[routeRefType |-> "external", params |-> ps, optional |-> o] :
     ps \in SeqsUpTo(ParamNames, MaxListLen),
     o \in OptionalValues(Optional)}

\* ExternalRouteRef<Params, Optional>: the values of the type
\*   { $$routeRefType: 'external'; params: ParamKeys<Params>; optional?: Optional }
ExternalRouteRef(Params, Optional) ==
  {[routeRefType |-> "external", params |-> ps, optional |-> o] :
     ps \in {l \in SeqsUpTo(ParamNames, MaxListLen) :
               KeyListTypeChecks(l, ParamKeys(Params))},
     o \in OptionalValues(Optional)}

VARIABLES
  refs,     \* reference id -> NoRef, or [Params, Optional, desc]
  binding   \* reference id -> "pending", "bound" or "unbound"

refVars == <<refs, binding>>

NoRef == [Params |-> UndefinedT, Optional |-> "none",
          desc |-> [routeRefType |-> "none", params |-> <<>>, optional |-> "absent"]]

RefsInit ==
  /\ refs = [r \in RefIds |-> NoRef]
  /\ binding = [r \in RefIds |-> "pending"]

\* A plugin module is loaded and creates its descriptor.
CreateExternalRouteRef(r, Params, Optional, desc) ==
  /\ refs[r] = NoRef
  /\ desc \in ExternalRouteRef(Params, Optional)
  /\ refs' = [refs EXCEPT ![r] = [Params |-> Params, Optional |-> Optional,
                                  desc |-> desc]]
  /\ UNCHANGED binding

\* The app may leave a reference unbound only when it is explicitly optional.
MayLeaveUnbound(desc) == desc.optional = "true"

\* The app's binding step resolves a reference; it reads the descriptor only.
BindRoute(r, target) ==
  /\ refs[r] # NoRef
  /\ binding[r] = "pending"
  /\ target = "unbound" => MayLeaveUnbound(refs[r].desc)
  /\ binding' = [binding EXCEPT ![r] = target]
  /\ UNCHANGED refs

\* ------------------------------------------------------------ route tree

\* Number of nodes the router creates.
MaxNodes == 3

NodeIds == 1..MaxNodes
\* The route references the app's extensions carry.
RouteRefs == {"rootRef", "entityRef"}
Paths == {"/", "catalog"}

\* interface BackstageRouteObject: a node as the router first creates it.
BackstageRouteObject(path, routeRefs) ==
  [caseSensitive |-> FALSE, children |-> <<>>, element |-> "mounted",
   path |-> path, routeRefs |-> routeRefs]

NoNode == [caseSensitive |-> FALSE, children |-> <<>>, element |-> "none",
           path |-> "", routeRefs |-> {}]

VARIABLES
  nodes,         \* node id -> NoNode, or the BackstageRouteObject
  routeObjects,  \* the top-level nodes, in order
  phase,         \* "constructing" until the router hands the tree over, then "built"
  cursor         \* the node a traversal is at, 0 before it starts

treeVars == <<nodes, routeObjects, phase, cursor>>

Existing == {n \in NodeIds : nodes[n] # NoNode}
Children(n) == Range(nodes[n].children)

TreeInit ==
  /\ nodes = [n \in NodeIds |-> NoNode]
  /\ routeObjects = <<>>
  /\ phase = "constructing"
  /\ cursor = 0

\* A router that hangs every nested node under the first node as well.
AddRouteShared(parent, path, ref) ==
  /\ phase = "constructing"
  /\ Cardinality(Existing) < MaxNodes
  /\ parent \in Existing \cup {0}
  /\ LET n == Cardinality(Existing) + 1 IN
       /\ nodes' = [m \in NodeIds |->
                      IF m = n THEN BackstageRouteObject(path, {ref})
                      ELSE IF m = parent \/ (m = 1 /\ parent # 0)
                        THEN [nodes[m] EXCEPT !.children = Append(@, n)]
                      ELSE nodes[m]]
       /\ routeObjects' = IF parent = 0 THEN Append(routeObjects, n)
                          ELSE routeObjects
  /\ UNCHANGED <<phase, cursor>>

\* The router creates a node for a route and gives it to its parent, or to the
\* top-level list when it has none (parent = 0).
AddRoute(parent, path, ref) ==
  /\ phase = "constructing"
  /\ Cardinality(Existing) < MaxNodes
  /\ parent \in Existing \cup {0}
  /\ LET n == Cardinality(Existing) + 1 IN
       /\ nodes' = [m \in NodeIds |->
                      IF m = n THEN BackstageRouteObject(path, {ref})
                      ELSE IF m = parent
                        THEN [nodes[m] EXCEPT !.children = Append(@, n)]
                      ELSE nodes[m]]
       /\ routeObjects' = IF parent = 0 THEN Append(routeObjects, n)
                          ELSE routeObjects
  /\ UNCHANGED <<phase, cursor>>

\* While constructing, the router associates a further reference with a node.
AssociateRef(n, ref) ==
  /\ phase = "constructing"
  /\ n \in Existing
  /\ ref \notin nodes[n].routeRefs
  /\ nodes' = [nodes EXCEPT ![n].routeRefs = @ \cup {ref}]
  /\ UNCHANGED <<routeObjects, phase, cursor>>

\* The router hands the finished tree to the app.
FinishTree ==
  /\ phase = "constructing"
  /\ Existing # {}
  /\ phase' = "built"
  /\ UNCHANGED <<nodes, routeObjects, cursor>>

\* A traversal that records a resolved reference on the node it visits.
VisitNodeRecording(n) ==
  /\ phase = "built"
  /\ n \in (IF cursor = 0 THEN Range(routeObjects) ELSE Children(cursor))
  /\ cursor' = n
  /\ nodes' = [nodes EXCEPT ![n].routeRefs = @ \cup {"rootRef"}]
  /\ UNCHANGED <<routeObjects, phase>>

\* Traversal and matching of the built tree: step to a top-level node or to a
\* child of the current node; nothing of the tree is written.
VisitNode(n) ==
  /\ phase = "built"
  /\ n \in (IF cursor = 0 THEN Range(routeObjects) ELSE Children(cursor))
  /\ cursor' = n
  /\ UNCHANGED <<nodes, routeObjects, phase>>

\* The traversal starts over.
ResetTraversal ==
  /\ phase = "built"
  /\ cursor # 0
  /\ cursor' = 0
  /\ UNCHANGED <<nodes, routeObjects, phase>>

\* ------------------------------------------------------- specifications

vars == <<markerVars, typeVars, refVars, treeVars>>

MarkerNext ==
  \/ \E c \in Copies : LoadCopy(c) /\ UNCHANGED <<typeVars, refVars, treeVars>>
  \/ OtherCaller /\ UNCHANGED <<typeVars, refVars, treeVars>>
  \/ \E c \in Copies : TagObject(c) /\ UNCHANGED <<typeVars, refVars, treeVars>>

InitMarker == MarkerInit /\ TypesIdle /\ RefsInit /\ TreeInit

SpecMarker == InitMarker /\ [][MarkerNext]_vars

TypesNext ==
  \/ Normalise /\ UNCHANGED <<markerVars, refVars, treeVars>>
  \/ DeriveRouteFunc /\ UNCHANGED <<markerVars, refVars, treeVars>>
  \/ \E args \in SeqsUpTo(ArgValues, MaxArgs) :
       CallRouteFunc(args) /\ UNCHANGED <<markerVars, refVars, treeVars>>
  \/ DeriveParamKeys /\ UNCHANGED <<markerVars, refVars, treeVars>>
  \/ \E list \in SeqsUpTo(ParamNames, MaxListLen) :
       AssignKeyList(list) /\ UNCHANGED <<markerVars, refVars, treeVars>>

InitTypes == TypesInit /\ MarkerInit /\ RefsInit /\ TreeInit

SpecTypes == InitTypes /\ [][TypesNext]_vars

RefsNext ==
  \/ \E r \in RefIds, P \in RefShapes, O \in OptionalTypes :
       \E desc \in ExternalRouteRef(P, O) :
         CreateExternalRouteRef(r, P, O, desc)
           /\ UNCHANGED <<markerVars, typeVars, treeVars>>
  \/ \E r \in RefIds, target \in {"bound", "unbound"} :
       BindRoute(r, target) /\ UNCHANGED <<markerVars, typeVars, treeVars>>

InitRefs == RefsInit /\ MarkerInit /\ TypesIdle /\ TreeInit

SpecRefs == InitRefs /\ [][RefsNext]_vars

TreeNext ==
  \/ \E parent \in NodeIds \cup {0}, path \in Paths, ref \in RouteRefs :
       AddRoute(parent, path, ref) /\ UNCHANGED <<markerVars, typeVars, refVars>>
  \/ \E n \in NodeIds, ref \in RouteRefs :
       AssociateRef(n, ref) /\ UNCHANGED <<markerVars, typeVars, refVars>>
  \/ FinishTree /\ UNCHANGED <<markerVars, typeVars, refVars>>
  \/ \E n \in NodeIds : VisitNode(n) /\ UNCHANGED <<markerVars, typeVars, refVars>>
  \/ ResetTraversal /\ UNCHANGED <<markerVars, typeVars, refVars>>

InitTree == TreeInit /\ MarkerInit /\ TypesIdle /\ RefsInit

SpecTree == InitTree /\ [][TreeNext]_vars

\* ------------------------------------------------------------- properties

FirstMarker == retrievals[1][2]
Loaded == {c \in Copies : routeRefTypeOf[c] # NotLoaded}

\* C1: every retrieval of the family marker under 'route-ref-type' returns the
\* same value: the value of the first retrieval, which is a created symbol,
\* stays the stored value and the value every loaded copy holds, whatever else
\* the process does with the registry.
C1_EveryRetrievalSameMarker ==
  \A i \in DOMAIN retrievals :
    /\ retrievals[i][2] = FirstMarker
    /\ FirstMarker \notin {Absent, NotLoaded}
    /\ globalSingletons[RouteRefTypeKey] = FirstMarker
    /\ routeRefTypeOf[retrievals[i][1]] = FirstMarker

C1_Witness ==
  /\ Len(retrievals) = MaxCopies
  /\ globalSingletons[OtherKey] # Absent

\* C2: the factory () => Symbol('route-ref-type') runs in at most one copy, the
\* first one loaded; every symbol the process created is accounted for by that
\* one run (and by the other key's own singleton).
C2_FactoryRunsAtMostOnce ==
  /\ Cardinality(factoryRanIn) <= 1
  /\ retrievals # <<>> => factoryRanIn = {retrievals[1][1]}
  /\ symbolCount = Cardinality(factoryRanIn)
                     + (IF globalSingletons[OtherKey] # Absent THEN 1 ELSE 0)

C2_Witness ==
  /\ Loaded = Copies
  /\ Cardinality(factoryRanIn) = 1

\* C3: an object tagged with the marker of one copy is recognised by the
\* membership check of every loaded copy, whichever was loaded first.
C3_CrossCopyRecognition ==
  \A obj \in tagged : \A b \in Loaded : IsRouteRefFor(b, obj)

C3_Witness ==
  /\ Loaded = Copies
  /\ \E o1, o2 \in tagged :
       /\ o1.by = retrievals[1][1]
       /\ o2.by = retrievals[2][1]
       /\ IsRouteRefFor(o2.by, o1)
       /\ IsRouteRefFor(o1.by, o2)

IsKeyless(T) == T.kind = "object" /\ Len(T.keys) = 0
HasKeys(T) == T.kind = "object" /\ Len(T.keys) >= 1

C5_KeyListIsDeclaredKeys ==
  keyList # NoCall =>
    /\ paramKeys.of = UndefinedT => keyList.list = <<>>
    /\ HasKeys(paramKeys.of) => keyList.list = paramKeys.of.keys

\* C5 amended: every element of a key list of a shape with keys is one of the
\* shape's keys (order, length and repetition are free); of undefined and of
\* the key-less shape the key list is [].
C5_KeyListWithinKeys ==
  keyList # NoCall =>
    /\ (paramKeys.of = UndefinedT \/ IsKeyless(paramKeys.of)) => keyList.list = <<>>
    /\ HasKeys(paramKeys.of) => Range(keyList.list) \subseteq Range(paramKeys.of.keys)

C5_Witness ==
  /\ keyList # NoCall
  /\ paramKeys.of = ObjectT(<<"orgId", "repoId">>)
  /\ keyList.list = <<"repoId", "orgId", "orgId">>

\* C10: OptionalParams maps a key-less mapping to undefined and a mapping with
\* keys to itself (so applying it again changes nothing); RouteFunc of the
\* normalised key-less mapping takes zero arguments and ParamKeys of it is [].
C10_OptionalParamsNormalises ==
  /\ \A i \in 1..(Len(shapes) - 1) :
       /\ IsKeyless(shapes[i]) => shapes[i + 1] = UndefinedT
       /\ HasKeys(shapes[i]) => shapes[i + 1] = shapes[i]
  /\ (routeFunc # NoDerived /\ routeFunc.step >= 2 /\ IsKeyless(shapes[1])) =>
       /\ routeFunc.args = <<>>
       /\ call # NoCall => call.args = <<>>
  /\ (paramKeys # NoDerived /\ paramKeys.step >= 2 /\ IsKeyless(shapes[1])) =>
       /\ paramKeys.type = EmptyTupleT
       /\ keyList # NoCall => keyList.list = <<>>

C10_Witness ==
  /\ IsKeyless(shapes[1])
  /\ routeFunc # NoDerived /\ routeFunc.step = 2
  /\ paramKeys # NoDerived /\ paramKeys.step = 2
  /\ call # NoCall
  /\ keyList # NoCall

Created == {r \in RefIds : refs[r] # NoRef}

\* C6: a descriptor of a parameter-less shape has an empty params list; its
\* flag is absent, false or true, and a reference is left unbound only when the
\* flag is explicitly true: absent and false both mean required.
C6_ParameterlessRequiredByDefault ==
  \A r \in Created :
    /\ (refs[r].Params = UndefinedT \/ IsKeyless(refs[r].Params)) =>
         refs[r].desc.params = <<>>
    /\ refs[r].desc.optional \in {"absent", "false", "true"}
    /\ binding[r] = "unbound" => refs[r].desc.optional = "true"

C6_Witness ==
  \E r1, r2 \in Created :
    /\ refs[r1].Params = UndefinedT
    /\ refs[r1].desc.optional = "absent"
    /\ binding[r1] = "bound"
    /\ refs[r2].Params = UndefinedT
    /\ refs[r2].desc.optional = "true"
    /\ binding[r2] = "unbound"

\* C9: every descriptor carries $$routeRefType = 'external', and once created
\* none of its fields changes; binding reads it only.
C9_DescriptorFixed ==
  /\ [](\A r \in Created : refs[r].desc.routeRefType = "external")
  /\ [][\A r \in Created : refs'[r] = refs[r]]_vars

C9_Witness ==
  /\ Created = RefIds
  /\ \A r \in RefIds : binding[r] # "pending"

\* C7: once the router has finished the tree, no node's routeRefs changes.
C7_RouteRefsFrozen ==
  [][phase = "built" =>
       \A n \in NodeIds : nodes'[n].routeRefs = nodes[n].routeRefs]_vars

C7_Witness ==
  /\ phase = "built"
  /\ cursor # 0
  /\ nodes[cursor].routeRefs = RouteRefs

ParentsOf(n) == {p \in Existing : n \in Children(p)}
Occurrences(n, s) == Cardinality({i \in DOMAIN s : s[i] = n})

RECURSIVE Descendants(_, _)
Descendants(n, depth) ==
  IF depth = 0 THEN {}
  ELSE Children(n) \cup UNION {Descendants(c, depth - 1) : c \in Children(n)}

\* C8: whatever references are associated with which nodes, every node is in
\* the children list of at most one parent, once, a top-level node in none,
\* and no node is its own descendant.
C8_ExclusiveChildren ==
  \A n \in Existing :
    /\ Cardinality(ParentsOf(n)) <= 1
    /\ \A p \in Existing : Occurrences(n, nodes[p].children) <= 1
    /\ Occurrences(n, routeObjects) + Cardinality(ParentsOf(n)) = 1
    /\ n \notin Descendants(n, MaxNodes)

C8_Witness ==
  /\ \E n1, n2 \in Existing :
       /\ n1 # n2
       /\ nodes[n1].routeRefs \cap nodes[n2].routeRefs # {}
       /\ Cardinality(nodes[n1].routeRefs) > 1
       /\ n2 \in Children(n1)

====
